---- MODULE Spec2Model ----
(***************************************************************************)
(* Monte Carlo estimate of the false positive rate of the one sample       *)
(* t-test (src/main.py): the six distribution classes, the function        *)
(* simulation, and the Streamlit script main with its session state.       *)
(*                                                                         *)
(* Two specifications:                                                     *)
(*   Spec     the application: every user interaction reruns main() once,  *)
(*            from top to bottom; one action per kind of interaction.      *)
(*   SpecSim  the function simulation(obj, n, n_iter) called directly with *)
(*            free arguments, one step per loop iteration.                 *)
(*                                                                         *)
(* Real numbers are exact: a value is a record [form, p, q, r], either the *)
(* ratio p/q in lowest terms, the closed form of the skew normal mean, or  *)
(* NaN.  The one place where binary floating point decides control flow,   *)
(* the test i % ten_percent == 0, is modelled with its float meaning.      *)
(* p-values are counted in hundredths.                                     *)
(***************************************************************************)
EXTENDS Integers, Sequences, FiniteSets, TLC

VARIABLES
    initiator,              \* "initiator" in st.session_state
    session_distribution,   \* st.session_state["distribution"]
    session_sample_size,    \* st.session_state["sample_size"]
    session_fpr,            \* st.session_state["fpr"]
    button,                 \* st.session_state["button_<dist>"], absent = FALSE
    dist_choice,            \* the navigation radio
    inputs,                 \* the values of the page's parameter widgets
    sample_size,            \* the "Sample size: " widget
    error_shown,            \* st.error was called in the last pass
    graph_shown,            \* show_graph was called in the last pass
    hypothesis,             \* the mean show_hypothesis displayed in the last pass
    event,                  \* the interaction that started the last pass
    events,                 \* number of script reruns of the session so far
    pc,                     \* the runner: "idle", "running", "done", "crashed"
    dist_object,            \* simulation's obj
    n,                      \* simulation's n
    n_iter,                 \* simulation's n_iter
    i,                      \* the loop variable
    p_values,               \* the list p_values
    reports,                \* the calls on the progress bar, in order
    tests,                  \* the (sampled law, popmean) pairs handed to ttest_1samp
    fpr,                    \* the returned fpr
    error,                  \* the exception that ended the call, or "none"
    rng,                    \* state of numpy's global random generator
    stream,                 \* what the generator yields in each of its states
    seed,                   \* the generator's state when simulation was called
    calls,                  \* number of calls of simulation made by the caller
    first                   \* the result the first call returned

vars == <<initiator, session_distribution, session_sample_size, session_fpr,
          button, dist_choice, inputs, sample_size, error_shown, graph_shown,
          hypothesis, event, events, pc, dist_object, n, n_iter, i, p_values, reports,
          tests, fpr, error, rng, stream, seed, calls, first>>

sessionVars == <<initiator, session_distribution, session_sample_size,
                 session_fpr, button, dist_choice, inputs, sample_size,
                 error_shown, graph_shown, hypothesis, event, events>>

(***************************************************************************)
(* Bounds of the model.                                                    *)
(***************************************************************************)
\* largest n_iter simulation is called with in SpecSim
MaxIter == 20
\* number of states of the random generator before it cycles
RngPeriod == 2
\* number of reruns of the script in one session
MaxEvents == 4
\* the n_iter main passes to simulation.  The source sets 200_000; the loop is
\* the same for every count, and the model runs it with a count that can be
\* enumerated.
NUMBER_OF_ITERATIONS == 10

(***************************************************************************)
(* Program constants.                                                      *)
(***************************************************************************)
\* the significance threshold 0.05, in hundredths
ALPHA == 5
\* st.number_input("Sample size: ", value=5, min_value=2)
DefaultSampleSize == 5
MinSampleSize == 2

Distributions == {"Normal", "Skew Normal", "Uniform", "Exponential", "Beta",
                  "Chi Square"}
Pages == {"Main Menu"} \cup Distributions

\* values a parameter widget is set to
ParamValues == {-1, 0, 1}
\* values the sample size widget can hold: min_value keeps it >= 2
SampleSizes == {MinSampleSize, DefaultSampleSize}

\* p-values in hundredths: NaN, 0.01, 0.05 and 0.50
NaN == 0 - 1
PValues == {NaN, 1, ALPHA, 50}
RngStates == 0 .. (RngPeriod - 1)

(***************************************************************************)
(* Exact reals.                                                            *)
(***************************************************************************)
Abs(x) == IF x < 0 THEN 0 - x ELSE x

RECURSIVE GCD(_, _)
GCD(a, b) == IF b = 0 THEN a ELSE GCD(b, a % b)

NaNReal == [form |-> "nan", p |-> 0, q |-> 0, r |-> 0]
NoValue == [form |-> "none", p |-> 0, q |-> 0, r |-> 0]

\* p / q as Python's true division computes it (q # 0)
Ratio(p, q) ==
    LET g == GCD(Abs(p), Abs(q))
        s == IF q < 0 THEN 0 - 1 ELSE 1
    IN  [form |-> "ratio", p |-> (s * p) \div g, q |-> (s * q) \div g, r |-> 0]

\* loc + scale * delta * sqrt(2/pi), delta = alpha / sqrt(1 + alpha^2)
SkewMean(loc, scale, alpha) ==
    [form |-> "skewnorm", p |-> loc, q |-> scale, r |-> alpha]

IsZero(x) == x.form = "ratio" /\ x.p = 0

(***************************************************************************)
(* The six distribution classes.                                           *)
(***************************************************************************)
NumberOfParameters(d) ==
    CASE d = "Chi Square"  -> 1
      [] d = "Beta"        -> 2
      [] d = "Exponential" -> 1
      [] d = "Uniform"     -> 2
      [] d = "Skew Normal" -> 3
      [] d = "Normal"      -> 2
      [] OTHER             -> 0

\* every setting of the parameter widgets of page d, in the order of the
\* st.number_input calls
InputSpace(d) == [1 .. NumberOfParameters(d) -> ParamValues]

\* ScipyArgs with Uniform frozen as uniform(a, b), b taken for the width
ScipyArgsUniformUpper(d, a) ==
    CASE d = "Chi Square"  -> <<a[1]>>
      [] d = "Beta"        -> <<a[1], a[2]>>
      [] d = "Exponential" -> <<0, a[1]>>
      [] d = "Uniform"     -> <<a[1], a[2]>>             \* uniform(a, b)
      [] d = "Skew Normal" -> <<a[3], a[1], a[2]>>
      [] OTHER             -> <<>>
\* the arguments of the frozen scipy distribution input_parameter builds
\* (Normal builds none)
ScipyArgs(d, a) ==
    CASE d = "Chi Square"  -> <<a[1]>>                   \* chi2(df=self.df)
      [] d = "Beta"        -> <<a[1], a[2]>>             \* beta(a=alpha, b=beta)
      [] d = "Exponential" -> <<0, a[1]>>                \* expon(loc=0, scale=beta)
      [] d = "Uniform"     -> <<a[1], a[2] - a[1]>>      \* uniform(a, b-a)
      [] d = "Skew Normal" -> <<a[3], a[1], a[2]>>       \* skewnorm(alpha, loc, scale)
      [] OTHER             -> <<>>

\* scipy_object.mean(): a frozen distribution whose arguments fail scipy's
\* argument check has mean nan
ScipyMean(d, s) ==
    CASE d = "Chi Square"  -> IF s[1] > 0 THEN Ratio(s[1], 1) ELSE NaNReal
      [] d = "Beta"        -> IF s[1] > 0 /\ s[2] > 0
                              THEN Ratio(s[1], s[1] + s[2]) ELSE NaNReal
      [] d = "Exponential" -> IF s[2] > 0 THEN Ratio(s[1] + s[2], 1) ELSE NaNReal
      [] d = "Uniform"     -> IF s[2] > 0 THEN Ratio(2 * s[1] + s[2], 2) ELSE NaNReal
      [] d = "Skew Normal" -> IF s[3] > 0 THEN SkewMean(s[2], s[3], s[1]) ELSE NaNReal
      [] OTHER             -> NaNReal

NoObject == [dist |-> "none", args |-> <<>>, scipy_args |-> <<>>, mean |-> NaNReal]

\* input_parameter: the fields of self after the call.  args holds the widget
\* values (df | alpha, beta | beta | a, b | loc, scale, alpha | mean, s_dev).
InputParameter(d, a) ==
    [dist       |-> d,
     args       |-> a,
     scipy_args |-> ScipyArgs(d, a),
     mean       |-> IF d = "Normal" THEN Ratio(a[1], 1)
                    ELSE ScipyMean(d, ScipyArgs(d, a))]

\* Invalid with strict comparisons, which lets the boundary values through
InvalidAcceptingBoundary(obj) ==
    CASE obj.dist = "Chi Square"  -> obj.args[1] < 0
      [] obj.dist = "Beta"        -> obj.args[1] < 0 \/ obj.args[2] < 0
      [] obj.dist = "Exponential" -> obj.args[1] < 0
      [] obj.dist = "Uniform"     -> obj.args[1] > obj.args[2]
      [] obj.dist = "Skew Normal" -> obj.args[2] < 0
      [] obj.dist = "Normal"      -> obj.args[2] < 0
      [] OTHER                    -> FALSE
\* the condition under which validate_parameter raises ValueError
Invalid(obj) ==
    CASE obj.dist = "Chi Square"  -> obj.args[1] <= 0
      [] obj.dist = "Beta"        -> obj.args[1] <= 0 \/ obj.args[2] <= 0
      [] obj.dist = "Exponential" -> obj.args[1] <= 0
      [] obj.dist = "Uniform"     -> obj.args[1] >= obj.args[2]
      [] obj.dist = "Skew Normal" -> obj.args[2] <= 0
      [] obj.dist = "Normal"      -> obj.args[2] <= 0
      [] OTHER                    -> FALSE

\* validate_parameter: whether it raises, and self after the call
ValidateParameter(obj) == [raises |-> Invalid(obj), obj |-> obj]

\* the distribution get_sample draws from, in the parameters of record
\* (k | alpha, beta | beta | a, b | loc, scale, alpha | mu, sigma)
SampledLaw(obj) ==
    [dist   |-> obj.dist,
     params |-> IF obj.dist = "Skew Normal"
                THEN <<obj.scipy_args[2], obj.scipy_args[3], obj.scipy_args[1]>>
                ELSE obj.args]

\* GetSample drawing from a generator that is not the seeded one (its state
\* moves with the number of calls)
GetSampleUnseeded(obj, size, r) ==
    [size |-> size, law |-> SampledLaw(obj), draw |-> (r + calls) % RngPeriod]
\* get_sample(n): n values drawn from the generator in state r
GetSample(obj, size, r) ==
    [size |-> size, law |-> SampledLaw(obj), draw |-> r]

\* the generator's state after a draw
NextRng(r) == (r + 1) % RngPeriod

\* ttest_1samp(sample_data, obj.mean).pvalue
TTest1Samp(sample, popmean) == stream[sample.draw]

(***************************************************************************)
(* simulation(obj, n, n_iter)                                              *)
(***************************************************************************)
\* n_iter/10 and n_iter/100 are binary floats.  A ratio is one exactly when
\* its denominator in lowest terms is a power of two.
IsBinaryFloat(x) == x.form = "ratio" /\ x.q \in {1, 2, 4, 8, 16, 32, 64}

\* IsTenPercentStep true of every iteration
EveryIteration(k, N) == TRUE
\* i % ten_percent == 0 with ten_percent = n_iter/10.  When n_iter/10 is no
\* binary float, ten_percent is the nearest double, whose mantissa is 53 bits of
\* a periodic expansion: no integer i <= n_iter is a whole multiple of it, and
\* the remainder is never 0.
IsTenPercentStep(k, N) ==
    LET ten_percent == Ratio(N, 10)
    IN  /\ IsBinaryFloat(ten_percent)
        /\ (k * ten_percent.q) % ten_percent.p = 0

\* int(i/denom) with denom = n_iter/100.  (For n_iter < 55 the double quotient
\* truncates to the exact one; the model stays below that.)
ProgressValue(k, N) ==
    LET denom == Ratio(N, 100)
    IN  (k * denom.q) \div denom.p

\* Less comparing the encoding of NaN like a number
LessIgnoringNaN(p) == p < ALPHA
\* Less with <= for <
LessOrEqual(p) == p # NaN /\ p <= ALPHA
\* p < 0.05 on floats: every comparison with nan is False
Less(p) == p # NaN /\ p < ALPHA

\* len([i for i in p_values if i<0.05])
RECURSIVE CountLess(_)
CountLess(ps) ==
    IF ps = <<>> THEN 0
    ELSE (IF Less(Head(ps)) THEN 1 ELSE 0) + CountLess(Tail(ps))

\* the locals when the loop is entered: prog_bar = st.progress(0), p_values = []
LoopEntry(r) ==
    [i |-> 0, p_values |-> <<>>, reports |-> <<[at |-> 0, value |-> 0]>>,
     tests |-> {}, rng |-> r]

\* one iteration of the for loop
LoopBody(L, obj, size, N) ==
    LET k      == L.i + 1
        sample == GetSample(obj, size, L.rng)
        p      == TTest1Samp(sample, obj.mean)
    IN  [i        |-> k,
         p_values |-> Append(L.p_values, p),
         reports  |-> IF IsTenPercentStep(k, N)
                      THEN Append(L.reports, [at |-> k, value |-> ProgressValue(k, N)])
                      ELSE L.reports,
         tests    |-> L.tests \cup {[law |-> sample.law, popmean |-> obj.mean]},
         rng      |-> NextRng(L.rng)]

\* for i in range(1, n_iter+1)
RECURSIVE RunLoop(_, _, _, _)
RunLoop(L, obj, size, N) ==
    IF L.i >= N THEN L ELSE RunLoop(LoopBody(L, obj, size, N), obj, size, N)

\* denom = n_iter/100; fpr = len([...])/denom.  Division by 0.0 raises
\* ZeroDivisionError.  The quotient is exact here; the double the code returns
\* can differ from it in the last place.
FprRaises(N) == IsZero(Ratio(N, 100))
\* Fpr counting the p-values <= 0.05
FprCountingBoundary(ps, N) ==
    Ratio(Cardinality({k \in DOMAIN ps : LessOrEqual(ps[k])}) * 100, N)
\* fpr = len([i for i in p_values if i<0.05])/denom
Fpr(ps, N) ==
    LET denom == Ratio(N, 100)
    IN  Ratio(CountLess(ps) * denom.q, denom.p)

(***************************************************************************)
(* The session history.                                                    *)
(***************************************************************************)
\* a history is the triple of the lists "distribution", "sample_size", "fpr"
\* set_empty_history
SetEmptyHistory(h) == <<<<>>, <<>>, <<>>>>

\* UpdateHistory leaving the sample size list alone
UpdateHistoryWithoutSize(h, dist, size, FPR) ==
    <<Append(h[1], dist), h[2], Append(h[3], FPR)>>
\* update_history(session, dist, n, FPR)
UpdateHistory(h, dist, size, FPR) ==
    <<Append(h[1], dist), Append(h[2], size), Append(h[3], FPR)>>

History == <<session_distribution, session_sample_size, session_fpr>>

(***************************************************************************)
(* main(): one run of the script.  d, a and sz are the widget values of    *)
(* this run, b the button flags and h the history after the on_click       *)
(* callback, button_1 and button_2 the values the NEXT and SIMULATE        *)
(* buttons return.                                                         *)
(***************************************************************************)
NoResult == [p_values |-> <<>>, fpr |-> NoValue]

NoRun ==
    /\ pc' = "idle"
    /\ n' = 0
    /\ n_iter' = 0
    /\ i' = 0
    /\ p_values' = <<>>
    /\ reports' = <<>>
    /\ tests' = {}
    /\ fpr' = NoValue
    /\ error' = "none"
    /\ rng' = rng

\* Proceeds going on after a ValueError too
ProceedsRegardless(raises) == TRUE
\* whether main goes on after validate_parameter
Proceeds(raises) == ~raises

Main(ev, d, a, sz, b, h, button_1, button_2) ==
    LET h0    == IF ~initiator THEN SetEmptyHistory(h) ELSE h
        obj   == InputParameter(d, a)
        v     == ValidateParameter(obj)
        shown == d \in Distributions /\ Proceeds(v.raises) /\ (button_1 \/ b[d])
        runs  == shown /\ button_2
        L     == RunLoop(LoopEntry(rng), v.obj, sz, NUMBER_OF_ITERATIONS)
        ok    == ~FprRaises(NUMBER_OF_ITERATIONS)
        FPR   == Fpr(L.p_values, NUMBER_OF_ITERATIONS)
        h1    == IF runs /\ ok THEN UpdateHistory(h0, d, sz, FPR) ELSE h0
    IN  /\ initiator' = TRUE
        /\ event' = ev
        /\ dist_choice' = d
        /\ inputs' = a
        /\ button' = b
        /\ error_shown' = (d \in Distributions /\ v.raises)
        /\ graph_shown' = shown
        /\ sample_size' = IF shown THEN sz ELSE DefaultSampleSize
        /\ hypothesis' = IF shown THEN v.obj.mean ELSE NoValue
        /\ session_distribution' = h1[1]
        /\ session_sample_size' = h1[2]
        /\ session_fpr' = h1[3]
        /\ dist_object' = IF d \in Distributions THEN v.obj ELSE NoObject
        /\ IF runs
           THEN /\ n' = sz
                /\ n_iter' = NUMBER_OF_ITERATIONS
                /\ i' = L.i
                /\ p_values' = L.p_values
                /\ reports' = L.reports
                /\ tests' = L.tests
                /\ rng' = L.rng
                /\ fpr' = IF ok THEN FPR ELSE NoValue
                /\ error' = IF ok THEN "none" ELSE "ZeroDivisionError"
                /\ pc' = IF ok THEN "done" ELSE "crashed"
           ELSE NoRun
        /\ events' = events + 1
        /\ UNCHANGED <<stream, seed, calls, first>>

\* the radio is moved to another page
SelectPage(d, a) ==
    /\ events < MaxEvents
    /\ d # dist_choice
    /\ Main("radio", d, a, sample_size, button, History, FALSE, FALSE)

\* a parameter widget is changed
SetParameters(a) ==
    /\ events < MaxEvents
    /\ dist_choice \in Distributions
    /\ a # inputs
    /\ Main("param", dist_choice, a, sample_size, button, History, FALSE, FALSE)

\* NEXT is clicked: callback_button_1 runs, then the script.  The button is on
\* the page when the last run validated the parameters.
ClickNext ==
    /\ events < MaxEvents
    /\ dist_choice \in Distributions
    /\ ~error_shown
    /\ Main("next", dist_choice, inputs, sample_size,
            [button EXCEPT ![dist_choice] = TRUE], History, TRUE, FALSE)

\* the sample size widget is changed; it is on the page below the plot
SetSampleSize(m) ==
    /\ events < MaxEvents
    /\ graph_shown
    /\ m # sample_size
    /\ Main("size", dist_choice, inputs, m, button, History, FALSE, FALSE)

\* SIMULATE is clicked; it is on the page below the plot
ClickSimulate ==
    /\ events < MaxEvents
    /\ graph_shown
    /\ Main("simulate", dist_choice, inputs, sample_size, button, History, FALSE, TRUE)

\* Clear is clicked: set_empty_history runs, then the script
ClickClear ==
    /\ events < MaxEvents
    /\ Main("clear", dist_choice, inputs, sample_size, button, SetEmptyHistory(History),
            FALSE, FALSE)

\* Download (csv) is clicked: the script runs again
ClickDownload ==
    /\ events < MaxEvents
    /\ Main("download", dist_choice, inputs, sample_size, button, History, FALSE, FALSE)

\* The session after the first run of the script: the Main Menu page, the
\* history just initiated.  What the generator yields is fixed for the session;
\* here every sample of the session tests significant (0.01) or none does (0.50).
Init ==
    /\ initiator = TRUE
    /\ session_distribution = <<>>
    /\ session_sample_size = <<>>
    /\ session_fpr = <<>>
    /\ button = [d \in Distributions |-> FALSE]
    /\ dist_choice = "Main Menu"
    /\ inputs = <<>>
    /\ sample_size = DefaultSampleSize
    /\ error_shown = FALSE
    /\ graph_shown = FALSE
    /\ hypothesis = NoValue
    /\ event = "load"
    /\ events = 0
    /\ pc = "idle"
    /\ dist_object = NoObject
    /\ n = 0
    /\ n_iter = 0
    /\ i = 0
    /\ p_values = <<>>
    /\ reports = <<>>
    /\ tests = {}
    /\ fpr = NoValue
    /\ error = "none"
    /\ rng = 0
    /\ stream \in {[r \in RngStates |-> p] : p \in {1, 50}}
    /\ seed = 0
    /\ calls = 0
    /\ first = NoResult

Next ==
    \/ \E d \in Pages : \E a \in InputSpace(d) : SelectPage(d, a)
    \/ \E a \in InputSpace(dist_choice) : SetParameters(a)
    \/ ClickNext
    \/ \E m \in SampleSizes : SetSampleSize(m)
    \/ ClickSimulate
    \/ ClickClear
    \/ ClickDownload

Spec == Init /\ [][Next]_vars

(***************************************************************************)
(* simulation called directly: SpecSim.                                    *)
(***************************************************************************)
\* the objects simulation is called with: a validated object whose sampler is
\* numpy's (Exponential) and one whose sampler is scipy's rvs (Skew Normal)
ValidObjects ==
    {InputParameter("Exponential", <<1>>), InputParameter("Skew Normal", <<0, 1, 1>>)}

Enter(L) ==
    /\ i' = L.i
    /\ p_values' = L.p_values
    /\ reports' = L.reports
    /\ tests' = L.tests
    /\ rng' = L.rng

\* simulation(obj, size, N) is called with the generator in state s
SimCall(obj, size, N, s) ==
    /\ pc = "idle"
    /\ calls = 0
    /\ dist_object' = obj
    /\ n' = size
    /\ n_iter' = N
    /\ seed' = s
    /\ Enter(LoopEntry(s))
    /\ fpr' = NoValue
    /\ error' = "none"
    /\ pc' = "running"
    /\ calls' = 1
    /\ UNCHANGED <<first, stream>>
    /\ UNCHANGED sessionVars

\* one iteration of the loop
SimIter ==
    /\ pc = "running"
    /\ i < n_iter
    /\ Enter(LoopBody([i |-> i, p_values |-> p_values, reports |-> reports,
                       tests |-> tests, rng |-> rng], dist_object, n, n_iter))
    /\ UNCHANGED <<pc, dist_object, n, n_iter, fpr, error, seed, calls, first, stream>>
    /\ UNCHANGED sessionVars

\* after the loop: st.success, the fpr and the return
SimReturn ==
    /\ pc = "running"
    /\ i >= n_iter
    /\ IF FprRaises(n_iter)
       THEN /\ pc' = "crashed"
            /\ error' = "ZeroDivisionError"
            /\ fpr' = fpr
       ELSE /\ pc' = "done"
            /\ error' = error
            /\ fpr' = Fpr(p_values, n_iter)
    /\ UNCHANGED <<dist_object, n, n_iter, i, p_values, reports, tests, rng,
                   seed, calls, first, stream>>
    /\ UNCHANGED sessionVars

\* the caller keeps the result, puts the generator back into the state of the
\* first call and calls simulation again with the same arguments
Rerun ==
    /\ pc = "done"
    /\ calls = 1
    /\ first' = [p_values |-> p_values, fpr |-> fpr]
    /\ Enter(LoopEntry(seed))
    /\ fpr' = NoValue
    /\ error' = "none"
    /\ pc' = "running"
    /\ calls' = 2
    /\ UNCHANGED <<dist_object, n, n_iter, seed, stream>>
    /\ UNCHANGED sessionVars

InitSim ==
    /\ initiator = TRUE
    /\ session_distribution = <<>>
    /\ session_sample_size = <<>>
    /\ session_fpr = <<>>
    /\ button = [d \in Distributions |-> FALSE]
    /\ dist_choice = "Main Menu"
    /\ inputs = <<>>
    /\ sample_size = DefaultSampleSize
    /\ error_shown = FALSE
    /\ graph_shown = FALSE
    /\ hypothesis = NoValue
    /\ event = "load"
    /\ events = 0
    /\ pc = "idle"
    /\ dist_object = NoObject
    /\ n = 0
    /\ n_iter = 0
    /\ i = 0
    /\ p_values = <<>>
    /\ reports = <<>>
    /\ tests = {}
    /\ fpr = NoValue
    /\ error = "none"
    /\ rng = 0
    /\ stream \in [RngStates -> PValues]
    /\ seed = 0
    /\ calls = 0
    /\ first = NoResult

NextSim ==
    \/ \E obj \in ValidObjects : \E size \in SampleSizes : \E N \in 0 .. MaxIter :
         \E s \in RngStates : SimCall(obj, size, N, s)
    \/ SimIter
    \/ SimReturn
    \/ Rerun

SpecSim == InitSim /\ [][NextSim]_vars

(***************************************************************************)
(* The properties.                                                         *)
(***************************************************************************)
\* the validity constraint of each family, as the table of the design states it
TableValid(d, a) ==
    CASE d = "Chi Square"  -> a[1] > 0
      [] d = "Beta"        -> a[1] > 0 /\ a[2] > 0
      [] d = "Exponential" -> a[1] > 0
      [] d = "Uniform"     -> a[1] < a[2]
      [] d = "Skew Normal" -> a[2] > 0
      [] d = "Normal"      -> a[2] > 0
      [] OTHER             -> FALSE

\* the population mean of each family, as the table of the design states it
TrueMean(d, a) ==
    CASE d = "Chi Square"  -> Ratio(a[1], 1)
      [] d = "Beta"        -> Ratio(a[1], a[1] + a[2])
      [] d = "Exponential" -> Ratio(a[1], 1)
      [] d = "Uniform"     -> Ratio(a[1] + a[2], 2)
      [] d = "Skew Normal" -> SkewMean(a[1], a[2], a[3])
      [] d = "Normal"      -> Ratio(a[1], 1)
      [] OTHER             -> NoValue

\* the positions of the p-values strictly below 0.05
Significant(ps) == {k \in DOMAIN ps : ps[k] \in PValues \ {NaN} /\ ps[k] < ALPHA}
NaNs(ps) == {k \in DOMAIN ps : ps[k] = NaN}

\* C1: on every distribution page the pass shows the error exactly when the
\* parameters violate the family's constraint (boundary values included), and
\* the object keeps the parameters that were entered.
C1_ValidateMatchesTable ==
    dist_choice \in Distributions =>
        /\ error_shown = ~TableValid(dist_choice, inputs)
        /\ dist_object.dist = dist_choice
        /\ dist_object.args = inputs

\* a boundary value (k = 0) was entered and rejected
C1_Witness ==
    /\ dist_choice = "Chi Square"
    /\ inputs = <<0>>
    /\ error_shown
    /\ dist_object.args = <<0>>

C3_ReportsReachHundredOnce ==
    (pc = "done" /\ n_iter > 0) =>
        /\ \A k \in 1 .. Len(reports) : reports[k].value \in 0 .. 100
        /\ \A k \in 1 .. Len(reports) - 1 : reports[k].value <= reports[k + 1].value
        /\ Cardinality({k \in 1 .. Len(reports) : reports[k].value = 100}) = 1
        /\ \A k \in 1 .. Len(reports) : reports[k].value = 100 => reports[k].at = n_iter

\* C4 as stated: notifications come about every N/100 iterations.  Stated for
\* the counts that are multiples of 10: two consecutive notifications of a
\* completed run are at most ceil(N/100) iterations apart.
C4_OnePercentIntervals ==
    (pc = "done" /\ n_iter > 0 /\ n_iter % 10 = 0) =>
        \A k \in 1 .. Len(reports) - 1 :
            (reports[k + 1].at - reports[k].at) <= (n_iter + 99) \div 100

\* C4 amended: after the initial 0 the reporter is notified only at iterations
\* that are whole multiples of N/10, so consecutive notifications are at least
\* N/10 iterations apart, a run makes at most 11 notifications whatever N is,
\* and a completed run with N > 10 makes fewer notifications than iterations.
C4_TenPercentIntervals ==
    pc \in {"running", "done"} =>
        /\ Len(reports) >= 1
        /\ reports[1] = [at |-> 0, value |-> 0]
        /\ \A k \in 2 .. Len(reports) :
              /\ reports[k].at \in 1 .. i
              /\ (10 * reports[k].at) % n_iter = 0
              /\ 10 * (reports[k].at - reports[k - 1].at) >= n_iter
        /\ Len(reports) <= 11
        /\ (pc = "done" /\ n_iter > 10) => Len(reports) - 1 < n_iter

\* a run of 20 iterations that notified at 2, 4, ..., 20
C4_Witness ==
    /\ pc = "done"
    /\ n_iter = 20
    /\ Len(reports) = 11
    /\ reports[2] = [at |-> 2, value |-> 10]
    /\ reports[11] = [at |-> 20, value |-> 100]

\* C5: a simulation has run only in a pass whose parameters satisfy the
\* family's constraint and whose sample size is >= 2; a pass that shows the
\* error draws no plot, runs no simulation and appends nothing to the history.
C5_SimulationOnlyAfterValidation ==
    /\ [](pc # "idle" =>
            /\ dist_choice \in Distributions
            /\ TableValid(dist_object.dist, dist_object.args)
            /\ ~error_shown
            /\ n >= 2)
    /\ [](error_shown => (~graph_shown /\ pc = "idle" /\ p_values = <<>>))
    /\ [][error_shown' =>
            /\ Len(session_distribution') <= Len(session_distribution)
            /\ Len(session_sample_size') <= Len(session_sample_size)
            /\ Len(session_fpr') <= Len(session_fpr)]_vars

\* the parameters were made invalid on a page whose NEXT had been clicked and
\* that had run a simulation before
C5_Witness ==
    /\ error_shown
    /\ dist_choice \in Distributions
    /\ button[dist_choice]
    /\ Len(session_fpr) = 1
    /\ event = "param"

\* C6: every t-test of a run hypothesizes the true mean of the law get_sample
\* drew from, the same value in all iterations and the one show_hypothesis
\* displayed; the object the run used still holds the entered parameters.
C6_NullIsTrueMean ==
    /\ \A t \in tests :
          /\ t.popmean = TrueMean(t.law.dist, t.law.params)
          /\ t.popmean = hypothesis
          /\ t.law.dist = dist_choice
    /\ Cardinality(tests) <= 1
    /\ pc = "done" =>
          /\ tests # {}
          /\ dist_object.args = inputs
          /\ dist_object.mean = hypothesis

\* a run on Uniform(-1, 0), whose mean -1/2 is not its lower bound
C6_Witness ==
    /\ pc = "done"
    /\ dist_choice = "Uniform"
    /\ inputs = <<0 - 1, 0>>
    /\ tests = {[law |-> [dist |-> "Uniform", params |-> <<0 - 1, 0>>],
                 popmean |-> Ratio(0 - 1, 2)]}

\* C7: a call with n_iter = 0 does not end in an arithmetic error: it is
\* refused, or it returns no p-values and an undefined fpr.
C7_ZeroIterationsPolicy ==
    (calls > 0 /\ n_iter = 0) =>
        /\ error = "none"
        /\ pc # "crashed"
        /\ pc = "done" => (p_values = <<>> /\ fpr \in {NaNReal, NoValue})

C9_NaNDoesNotAbort ==
    /\ [][(pc = "running" /\ i < n_iter /\ stream[rng] = NaN) =>
            /\ pc' = "running"
            /\ i' = i + 1
            /\ p_values' = Append(p_values, NaN)]_vars
    /\ [][(pc = "running" /\ n_iter > 0) => pc' \in {"running", "done"}]_vars
    /\ [](pc = "done" =>
            /\ i = n_iter
            /\ Len(p_values) = n_iter
            /\ fpr.p * n_iter <= 100 * fpr.q * (n_iter - Cardinality(NaNs(p_values)))
            /\ fpr.p * n_iter = 100 * fpr.q * Cardinality(Significant(p_values)))

\* a completed run whose first p-value was NaN and whose second was significant
C9_Witness ==
    /\ pc = "done"
    /\ n_iter = 4
    /\ p_values = <<NaN, 1, NaN, 1>>
    /\ fpr = Ratio(50, 1)

\* C10: the three history lists always have the same length; a pass that runs
\* a simulation appends its distribution, sample size and fpr at the end of
\* each, a click on Clear empties them, and nothing else changes them.
C10_HistoryInStep ==
    /\ [](/\ Len(session_distribution) = Len(session_fpr)
          /\ Len(session_sample_size) = Len(session_fpr))
    /\ [][/\ pc' = "done" =>
               /\ event' = "simulate"
               /\ session_distribution' = Append(session_distribution, dist_choice')
               /\ session_sample_size' = Append(session_sample_size, n')
               /\ session_fpr' = Append(session_fpr, fpr')
          /\ event' = "clear" =>
               /\ session_distribution' = <<>>
               /\ session_sample_size' = <<>>
               /\ session_fpr' = <<>>
          /\ (pc' # "done" /\ event' # "clear") => History' = History]_vars

\* a second simulation was appended behind the first
C10_Witness ==
    /\ pc = "done"
    /\ Len(session_distribution) = 2
    /\ Len(session_sample_size) = 2
    /\ Len(session_fpr) = 2

====
